---- MODULE Spec2Model ----
(***************************************************************************)
(* Model of wasm-rpc-stubgen's `add_stub_dependency`                       *)
(* (src/wasm-rpc-stubgen/src/commands/dependencies.rs): merging a          *)
(* generated stub WIT tree into a destination WIT tree.                    *)
(*                                                                         *)
(* Strings are sequences of chunks (the chunk "-stub" is the stub suffix), *)
(* so that format!, strip_suffix and equality are computed, not assumed.   *)
(* Paths are sequences of components, each component such a string.        *)
(*                                                                         *)
(* A second specification, SpecView, covers golem-cli's                    *)
(* `InvokeResultView::try_parse_or_json`                                   *)
(* (src/golem-cli/src/model/invoke_result_view.rs).                        *)
(***************************************************************************)
EXTENDS Integers, Sequences, FiniteSets, TLC

\* ---------------------------------------------------------------- bounds
\* number of consecutive add_stub_dependency calls explored
MaxCalls == 2
\* number of packages of the stub graph besides its main package
MaxDeps == 2
\* number of results a function declares, and of elements a result tuple has
MaxResults == 2

\* ------------------------------------------------------ strings and names
NoVersion == "none"

\* wit_parser::PackageName { namespace, name, version }
PackageName(ns, name, ver) == [namespace |-> ns, name |-> name, version |-> ver]

\* str::strip_suffix("-stub") is Some(..)
EndsWithStub(name) == Len(name) >= 1 /\ name[Len(name)] = "-stub"

\* str::strip_suffix("-stub"), where it is Some
StripStub(name) == SubSeq(name, 1, Len(name) - 1)

\* format!("{}-stub", name)
WithStub(name) == name \o <<"-stub">>

\* impl Display for PackageName: "<namespace>:<name>[@<version>]"
DisplayPackageName(pn) ==
    <<pn.namespace, ":">> \o pn.name
        \o (IF pn.version = NoVersion THEN <<>> ELSE <<"@", pn.version>>)

\* dest_stub_package_name: PackageName { name: "<name>-stub", ..dest }
DestStubPackageName(dest_name) ==
    [dest_name EXCEPT !.name = WithStub(dest_name.name)]

\* stub_target_package_name: PackageName { name: strip_suffix, ..stub }
StubTargetPackageName(stub_name) ==
    [stub_name EXCEPT !.name = StripStub(stub_name.name)]

\* format!("{}:{}-stub", dest.name.namespace, dest.name): the second
\* argument is the whole PackageName, formatted by its Display
StubImportPrefix(dest_name) ==
    <<dest_name.namespace, ":">> \o DisplayPackageName(dest_name) \o <<"-stub">>

\* ----------------------------------------------------------------- paths
\* one path component spelled from string chunks, e.g. "ns_app-stub"
Component(chunks) == chunks

\* Path::join
Join(base, rel) == base \o rel

IsPrefixOf(p, q) == Len(p) <= Len(q) /\ SubSeq(q, 1, Len(p)) = p

\* Path::strip_prefix is Ok
StripPrefixOk(path, base) == IsPrefixOf(base, path)

\* Path::strip_prefix, where it is Ok
StripPrefix(path, base) == SubSeq(path, Len(base) + 1, Len(path))

\* Path::file_name is Some: the path does not end in ".."
HasFileName(path) == Len(path) >= 1 /\ path[Len(path)] # Component(<<"..">>)

\* Path::file_name, where it is Some
FileName(path) == <<path[Len(path)]>>

\* Path::parent is Some
HasParent(path) == Len(path) >= 1

\* Path::parent, where it is Some
Parent(path) == SubSeq(path, 1, Len(path) - 1)

\* format!("{}_{}", package_name.namespace, package_name.name)
DepDirName(pn) == Component(<<pn.namespace, "_">> \o pn.name)

\* -------------------------------------------------------- WIT source text
\* A WIT file: its package declaration, its import statements and the rest.
WitText(pkg, imports, body) == [pkg |-> pkg, imports |-> imports, body |-> body]

\* "import <namespace>:<name>/<interface>": an import of package pn
ImportOf(pn) == <<pn.namespace, ":">> \o pn.name \o <<"/", "api">>

\* crate::wit::get_stub_wit for the stub of component `target`
get_stub_wit(target, mode) ==
    WitText(DestStubPackageName(target),
            IF mode = "ImportRootTypes" THEN {ImportOf(target)} ELSE {},
            "stub")

\* crate::wit::import_remover(prefix) applied to a text
import_remover(prefix, text) ==
    [text EXCEPT !.imports = {i \in @ : ~IsPrefixOf(prefix, i)}]

\* ------------------------------------------------- the two trees on disk
NS == "ns"
APP == PackageName(NS, <<"app">>, NoVersion)
APP_STUB == PackageName(NS, <<"app", "-stub">>, NoVersion)
UTIL == PackageName(NS, <<"util">>, NoVersion)
UTIL_STUB == PackageName(NS, <<"util", "-stub">>, NoVersion)

\* stub_wit_root, and the candidates for dest_wit_root ("/" has no parent)
StubWitRoot == <<Component(<<"stub">>), Component(<<"wit">>)>>
DestWitRoots == {<<Component(<<"proj">>), Component(<<"wit">>)>>, <<>>}

\* stub_wit_root.join("_stub.wit")
StubWitPath == Join(StubWitRoot, <<Component(<<"_stub.wit">>)>>)
MainWitPath == Join(StubWitRoot, <<Component(<<"main.wit">>)>>)
DotDotPath == Join(StubWitRoot, <<Component(<<"..">>)>>)
OutsidePath == <<Component(<<"elsewhere">>), Component(<<"lib.wit">>)>>
DepWitPath(pn) ==
    Join(StubWitRoot, <<Component(<<"deps">>), DepDirName(pn), Component(<<"lib.wit">>)>>)
DepMoreWitPath(pn) ==
    Join(StubWitRoot, <<Component(<<"deps">>), DepDirName(pn), Component(<<"more.wit">>)>>)
DepStubWitPath(pn) ==
    Join(StubWitRoot, <<Component(<<"deps">>), DepDirName(pn), Component(<<"_stub.wit">>)>>)

\* what a hand-written or lagging _stub.wit holds, and a user-edited target
CustomWit(pn) == WitText(pn, {}, "custom")
EditedWit == WitText(APP, {}, "edited")

\* a transitive package's file: it imports the destination's stub package
\* and one unrelated package
LibWit(pn, dest_name) ==
    WitText(pn, {ImportOf(DestStubPackageName(dest_name)),
                 <<"wasi", ":", "io", "/", "api">>}, "lib")

DestNames == {APP, APP_STUB}
StubMainNames == {APP_STUB, UTIL_STUB, UTIL}
DepNames == {APP, UTIL, APP_STUB}

\* How the stub tree and the external collaborators behave in one run of
\* the model; they do not change between calls (unchanged source tree).
\*   import / inline : _stub.wit is the generator's output for the stub's
\*                     target component, in that mode
\*   custom          : _stub.wit is some other text
\*   no_stub_wit     : the main package's file is main.wit; no _stub.wit
\*   no_file_name    : a main-package source path ends in ".."
\*   dep_outside     : package UTIL's source lies outside stub_wit_root
\*   dep_unreadable  : package UTIL's source cannot be read
\*   resolve_fails   : ResolvedWitDir::new / main_package fails
\*   check_gen_fails : stub generation inside is_self_stub fails
\*   inline_gen_fails: the inline regeneration while planning fails
\*   dep_collides    : package UTIL's source is the _stub.wit of the
\*                     directory deps/<ns>_<name> named after the main package
\*   multi_source    : every package has two source files
Variants == {"import", "inline", "custom", "no_stub_wit", "no_file_name",
             "dep_outside", "dep_unreadable", "resolve_fails",
             "check_gen_fails", "inline_gen_fails", "dep_collides",
             "multi_source"}

StubText(main, variant) ==
    IF variant = "custom" \/ ~EndsWithStub(main.name) THEN CustomWit(main)
    ELSE get_stub_wit(StubTargetPackageName(main),
                      IF variant = "inline" THEN "InlineRootTypes"
                                            ELSE "ImportRootTypes")

\* ResolvedWitDir.sources of the stub tree
StubSources(main, deps, variant) ==
    [p \in {main} \cup deps |->
        IF p = main
        THEN CASE variant = "no_stub_wit" -> <<MainWitPath>>
               [] variant = "no_file_name" -> <<StubWitPath, DotDotPath>>
               [] variant = "multi_source" -> <<StubWitPath, MainWitPath>>
               [] OTHER -> <<StubWitPath>>
        ELSE CASE p = UTIL /\ variant = "dep_outside" -> <<OutsidePath>>
               [] p = UTIL /\ variant = "dep_collides" -> <<DepStubWitPath(main)>>
               [] variant = "multi_source" -> <<DepWitPath(p), DepMoreWitPath(p)>>
               [] OTHER -> <<DepWitPath(p)>>]

\* the readable files of the stub tree
StubFiles(main, deps, variant, dest_name) ==
    LET readable == {p \in deps : ~(p = UTIL /\ variant = "dep_unreadable")}
        sources == StubSources(main, deps, variant)
        holds(p, path) == \E i \in DOMAIN sources[p] : sources[p][i] = path
        dep_paths == {path \in UNION {{sources[p][i] : i \in DOMAIN sources[p]} :
                                          p \in readable} : TRUE}
        main_paths == {path \in {sources[main][i] : i \in DOMAIN sources[main]} :
                           HasFileName(path)}
        by_path(path) == CHOOSE p \in readable : holds(p, path)
    IN  [path \in main_paths \cup dep_paths |->
            IF path = StubWitPath THEN StubText(main, variant)
            ELSE IF path \in main_paths THEN StubText(main, "custom")
            ELSE LibWit(by_path(path), dest_name)]

StubTrees(dest_name) ==
    { [package_id |-> main,
       package_names |-> {main} \cup deps,
       sources |-> StubSources(main, deps, variant),
       files |-> StubFiles(main, deps, variant, dest_name),
       variant |-> variant] :
         main \in StubMainNames,
         deps \in {d \in SUBSET DepNames : Cardinality(d) <= MaxDeps},
         variant \in Variants }

\* The stub trees explored. Only the plain tree ("import") is explored with
\* the largest number of packages; a tree whose _stub.wit is the inline
\* regeneration matters where the stub's main package is the destination's
\* stub package.
ValidStubTree(t) ==
    /\ Cardinality(t.package_names) <= MaxDeps + 1
    /\ t.variant # "import" => Cardinality(t.package_names) <= MaxDeps
    /\ t.variant = "inline" => t.package_id = APP_STUB
    /\ t.variant \in {"dep_outside", "dep_unreadable", "dep_collides"} =>
           UTIL \in t.package_names \ {t.package_id}
    /\ t.variant = "multi_source" => Cardinality(t.package_names) = 2

\* --------------------------------------------------------------- planning
\* OverwriteSafeAction::{WriteFile, CopyFile, CopyFileTransformed}
WriteFile(content, target) ==
    [kind |-> "WriteFile", content |-> content, target |-> target]
CopyFile(source, target) ==
    [kind |-> "CopyFile", source |-> source, target |-> target]
CopyFileTransformed(source, content, target) ==
    [kind |-> "CopyFileTransformed", source |-> source,
     source_content_transformed |-> content, target |-> target]

\* dest_wit_root.join("deps")
DestDepsDir(d) == Join(d.root, <<Component(<<"deps">>)>>)

is_stub_main_package(t, p) == p = t.package_id
is_dest_package(d, p) == p = d.main
is_dest_stub_package(d, p) == p = DestStubPackageName(d.main)

Planned(acts) == [err |-> "none", actions |-> acts]
PlanFailed(kind) == [err |-> kind, actions |-> <<>>]

\* faulty variant: the self-stub is regenerated in import mode
PlanSelfStubImportMode(t, d, p) ==
    IF t.variant = "inline_gen_fails" THEN PlanFailed("StubGenError")
    ELSE Planned(<<WriteFile(
             get_stub_wit(d.main, "ImportRootTypes"),
             Join(DestDepsDir(d), <<DepDirName(p), Component(<<"_stub.wit">>)>>))>>)

\* the self-stub branch: regenerate inline, one WriteFile
PlanSelfStub(t, d, p) ==
    IF t.variant = "inline_gen_fails" THEN PlanFailed("StubGenError")
    ELSE Planned(<<WriteFile(
             get_stub_wit(d.main, "InlineRootTypes"),
             Join(DestDepsDir(d), <<DepDirName(p), Component(<<"_stub.wit">>)>>))>>)

\* the stub-main branch: one CopyFile per source, file name preserved
RECURSIVE PlanStubMain(_, _, _, _)
PlanStubMain(t, d, p, sources) ==
    IF sources = <<>> THEN Planned(<<>>)
    ELSE IF ~HasFileName(Head(sources)) THEN PlanFailed("MissingFileNameError")
    ELSE LET rest == PlanStubMain(t, d, p, Tail(sources))
             act == CopyFile(Head(sources),
                        Join(Join(DestDepsDir(d), <<DepDirName(p)>>),
                             FileName(Head(sources))))
         IN  IF rest.err # "none" THEN rest
             ELSE Planned(<<act>> \o rest.actions)

\* faulty variant: the source path is joined to the destination root
\* without being made relative (joining an absolute path replaces the base)
RECURSIVE PlanOtherNoStrip(_, _, _, _)
PlanOtherNoStrip(t, d, p, sources) ==
    IF sources = <<>> THEN Planned(<<>>)
    ELSE IF Head(sources) \notin DOMAIN t.files
         THEN PlanFailed("SourceReadError")
    ELSE LET rest == PlanOtherNoStrip(t, d, p, Tail(sources))
             act == CopyFileTransformed(Head(sources),
                        import_remover(StubImportPrefix(d.main),
                                       t.files[Head(sources)]),
                        Head(sources))
         IN  IF rest.err # "none" THEN rest
             ELSE Planned(<<act>> \o rest.actions)

\* the other-package branch: one CopyFileTransformed per source, re-rooted
RECURSIVE PlanOther(_, _, _, _)
PlanOther(t, d, p, sources) ==
    IF sources = <<>> THEN Planned(<<>>)
    ELSE IF ~StripPrefixOk(Head(sources), StubWitRoot)
         THEN PlanFailed("PathStripError")
    ELSE IF Head(sources) \notin DOMAIN t.files
         THEN PlanFailed("SourceReadError")
    ELSE LET rest == PlanOther(t, d, p, Tail(sources))
             act == CopyFileTransformed(Head(sources),
                        import_remover(StubImportPrefix(d.main),
                                       t.files[Head(sources)]),
                        Join(d.root, StripPrefix(Head(sources), StubWitRoot)))
         IN  IF rest.err # "none" THEN rest
             ELSE Planned(<<act>> \o rest.actions)

\* faulty variant: the stub-main test comes before the destination test
PlanPackageMainFirst(t, d, p) ==
    IF is_stub_main_package(t, p) THEN PlanStubMain(t, d, p, t.sources[p])
    ELSE IF is_dest_package(d, p) THEN Planned(<<>>)
    ELSE IF is_dest_stub_package(d, p) THEN PlanSelfStub(t, d, p)
    ELSE PlanOther(t, d, p, t.sources[p])

\* faulty variant: the stub-main test comes before the self-stub test
PlanPackageMainBeforeSelfStub(t, d, p) ==
    IF is_dest_package(d, p) THEN Planned(<<>>)
    ELSE IF is_stub_main_package(t, p) THEN PlanStubMain(t, d, p, t.sources[p])
    ELSE IF is_dest_stub_package(d, p) THEN PlanSelfStub(t, d, p)
    ELSE PlanOther(t, d, p, t.sources[p])

\* one iteration of the loop over stub_resolved_wit_root.resolve.package_names
PlanPackage(t, d, p) ==
    IF is_dest_package(d, p) THEN Planned(<<>>)
    ELSE IF is_dest_stub_package(d, p) THEN PlanSelfStub(t, d, p)
    ELSE IF is_stub_main_package(t, p) THEN PlanStubMain(t, d, p, t.sources[p])
    ELSE PlanOther(t, d, p, t.sources[p])

\* every path some planned action of this pair of trees targets
CandidateTargets(t, d) ==
    UNION { {PlanPackage(t, d, p).actions[i].target :
                i \in 1..Len(PlanPackage(t, d, p).actions)} :
            p \in t.package_names }

\* ------------------------------------------------------ self-stub check
\* is_self_stub(stub_wit, dest_wit_root): "true", "false" or "err"
is_self_stub(t, d) ==
    IF t.variant = "check_gen_fails" THEN "err"
    ELSE IF StubWitPath \notin DOMAIN t.files THEN "err"
    ELSE IF \/ t.files[StubWitPath] = get_stub_wit(d.main, "ImportRootTypes")
            \/ t.files[StubWitPath] = get_stub_wit(d.main, "InlineRootTypes")
         THEN "true" ELSE "false"

\* is_self_stub_by_name, where strip_suffix is Some
is_self_stub_by_name(t, d) == d.main = StubTargetPackageName(t.package_id)

\* ------------------------------------------------------------- executor
\* the bytes an action would write
ActionContent(t, a) ==
    CASE a.kind = "WriteFile" -> a.content
      [] a.kind = "CopyFile" -> t.files[a.source]
      [] a.kind = "CopyFileTransformed" -> a.source_content_transformed

\* faulty variant: an existing target is never recognised as up to date
ActionPlanNoSkip(files, t, a) ==
    IF a.target \notin DOMAIN files THEN "Create" ELSE "Overwrite"

\* OverwriteSafeActionPlan of an action against the current file system
ActionPlan(files, t, a) ==
    IF a.target \notin DOMAIN files THEN "Create"
    ELSE IF files[a.target] = ActionContent(t, a) THEN "SkipSameContent"
    ELSE "Overwrite"

\* whether the executor performs an action of that disposition
Performs(plan, allow_overwrite) ==
    plan = "Create" \/ (plan = "Overwrite" /\ allow_overwrite)

\* the file system after writing `content` to `target`
WriteTo(files, target, content) ==
    [q \in DOMAIN files \cup {target} |->
        IF q = target THEN content ELSE files[q]]

\* ------------------------------------------------------------- manifest
UpdateCargoToml == {"Update", "UpdateIfExists", "NoUpdate"}

\* target_cargo_toml.exists() && target_cargo_toml.is_file()
ManifestIsFile(m) == m.kind # "absent"

\* cargo::is_cargo_component_toml is Ok
is_cargo_component_toml(m) == m.kind = "component"

\* cargo::add_dependencies_to_cargo_toml
add_dependencies_to_cargo_toml(m, paths) ==
    [m EXCEPT !.deps = @ \cup {paths[i] : i \in 1..Len(paths)}]

\* ---------------------------------------------------------------- state
VARIABLES
    stub,       \* the resolved stub tree (ResolvedWitDir of stub_wit_root)
    dest,       \* dest_wit_root and the destination's main package name
    fs,         \* files under dest_wit_root: path -> text
    manifest,   \* <parent of dest_wit_root>/Cargo.toml
    pc,         \* position inside add_stub_dependency, "idle" between calls
    overwrite,  \* argument of the current call
    update_cargo_toml,     \* argument of the current call
    todo,       \* packages the planning loop has not visited yet
    actions,    \* OverwriteSafeActions built so far
    next,       \* index of the action the executor handles next
    forbidden_overwrites,  \* actions the executor refused
    targets,    \* actions.targets(), collected before the run
    result,     \* how the last call ended
    calls,      \* number of calls started
    hist,       \* what the current call has done so far (observation only)
    temp_root,  \* whether the TempDir of is_self_stub exists on disk
    view        \* one invocation of InvokeResultView::try_parse_or_json

vars == <<stub, dest, fs, manifest, pc, overwrite, update_cargo_toml, todo,
          actions, next, forbidden_overwrites, targets, result, calls, hist,
          temp_root, view>>

\* what no step of add_stub_dependency changes
static == <<stub, dest, view>>

NoHist == [fs0 |-> <<>>, manifest0 |-> [kind |-> "absent", deps |-> {}],
           by_name |-> "none", by_content |-> "none", prefix |-> <<>>,
           skipped |-> {}, log |-> <<>>, written |-> {}, handed |-> <<>>,
           updated |-> FALSE, ran |-> FALSE, validated |-> FALSE,
           listed |-> <<>>, temp_created |-> FALSE,
           prev |-> [called |-> FALSE, overwrite |-> FALSE, ran |-> FALSE]]

\* no invocation result is being rendered
NoView == [res |-> [decodes |-> FALSE, tag |-> "none", value |-> <<>>],
           function |-> [found |-> FALSE, results |-> <<>>],
           out |-> [kind |-> "none", wave |-> <<>>, json |-> {}]]

Manifests(d) ==
    IF HasParent(d.root)
    THEN {[kind |-> k, deps |-> {}] : k \in {"absent", "component", "other"}}
    ELSE {[kind |-> "absent", deps |-> {}]}

Init ==
    /\ dest \in [root : DestWitRoots, main : DestNames]
    /\ stub \in {t \in StubTrees(dest.main) : ValidStubTree(t)}
    /\ \E S \in SUBSET CandidateTargets(stub, dest) : fs = [q \in S |-> EditedWit]
    /\ manifest \in Manifests(dest)
    /\ pc = "idle"
    /\ overwrite = FALSE
    /\ update_cargo_toml = "NoUpdate"
    /\ todo = {}
    /\ actions = <<>>
    /\ next = 1
    /\ forbidden_overwrites = <<>>
    /\ targets = <<>>
    /\ result = "none"
    /\ calls = 0
    /\ hist = NoHist
    /\ temp_root = FALSE
    /\ view = NoView

\* ---------------------------------------------------------------- steps
\* the call ends: back to "idle" with its result
Return(kind) ==
    /\ pc' = "idle"
    /\ result' = kind

\* lines 33-59: a call starts; both trees are resolved and the names and
\* the import remover are computed
Start(ow, policy) ==
    /\ pc = "idle"
    /\ calls < MaxCalls
    /\ calls' = calls + 1
    /\ overwrite' = ow
    /\ update_cargo_toml' = policy
    /\ todo' = {}
    /\ actions' = <<>>
    /\ next' = 1
    /\ forbidden_overwrites' = <<>>
    /\ targets' = <<>>
    /\ hist' = [NoHist EXCEPT
                   !.fs0 = fs, !.manifest0 = manifest,
                   !.prefix = StubImportPrefix(dest.main),
                   !.prev = [called |-> calls > 0, overwrite |-> overwrite,
                             ran |-> hist.ran]]
    /\ IF stub.variant = "resolve_fails"
       THEN Return("ResolutionError")
       ELSE pc' = "check" /\ result' = "none"
    /\ UNCHANGED <<static, temp_root, fs, manifest>>

\* lines 76-81: `is_self_stub_by_name && !is_self_stub_by_content?`
\* faulty variant: the content check is not consulted
SelfStubVerdictNameOnly(by_name, by_content) == "proceed"

\* faulty variant: an error of the content check is propagated before the
\* name check is consulted
SelfStubVerdictEagerError(by_name, by_content) ==
    IF by_content = "err" THEN "SelfStubCheckError"
    ELSE IF by_name /\ by_content = "false" THEN "AmbiguousSelfStubError"
    ELSE "proceed"

SelfStubVerdict(by_name, by_content) ==
    IF by_name /\ by_content = "err" THEN "SelfStubCheckError"
    ELSE IF by_name /\ by_content = "false" THEN "AmbiguousSelfStubError"
    ELSE "proceed"

\* faulty variant: the directory is removed only when the check succeeds
TempRootLeftOnError(by_content) == by_content = "err"

\* lines 212-229: temp_root is dropped when is_self_stub returns, through
\* `?` or at its end, and dropping a TempDir removes its directory
TempRootLeft(by_content) == FALSE

\* lines 61-74, 212: the stub's target name, the check by name, and the
\* entry into is_self_stub, which creates its temporary directory
SelfStubCheck ==
    /\ pc = "check"
    /\ IF ~EndsWithStub(stub.package_id.name)
       THEN /\ Return("Panic")
            /\ UNCHANGED <<hist, temp_root>>
       ELSE /\ hist' = [hist EXCEPT
                           !.by_name = IF is_self_stub_by_name(stub, dest)
                                       THEN "true" ELSE "false",
                           !.temp_created = TRUE]
            /\ temp_root' = TRUE
            /\ pc' = "is_self_stub"
            /\ UNCHANGED result
    /\ UNCHANGED <<static, fs, manifest, overwrite, update_cargo_toml, todo,
                   actions, next, forbidden_overwrites, targets, calls>>

\* lines 213-229, 76-82: the rest of is_self_stub, its return, and the
\* test `is_self_stub_by_name && !is_self_stub_by_content?`
IsSelfStubReturn ==
    /\ pc = "is_self_stub"
    /\ LET by_name == is_self_stub_by_name(stub, dest)
           by_content == is_self_stub(stub, dest)
       IN  /\ hist' = [hist EXCEPT !.by_content = by_content]
           /\ temp_root' = TempRootLeft(by_content)
           /\ IF SelfStubVerdict(by_name, by_content) # "proceed"
              THEN /\ Return(SelfStubVerdict(by_name, by_content))
                   /\ UNCHANGED todo
              ELSE /\ pc' = "plan"
                   /\ todo' = stub.package_names
                   /\ UNCHANGED result
    /\ UNCHANGED <<static, fs, manifest, overwrite, update_cargo_toml, actions,
                   next, forbidden_overwrites, targets, calls>>

\* the file system after performing every action of `acts` that creates
RECURSIVE WriteCreates(_, _, _)
WriteCreates(files, t, acts) ==
    IF acts = <<>> THEN files
    ELSE WriteCreates(
             IF Head(acts).target \in DOMAIN files THEN files
             ELSE WriteTo(files, Head(acts).target, ActionContent(t, Head(acts))),
             t, Tail(acts))

\* faulty variant: a planned action that creates its target is performed
\* as soon as it is planned
PlanStepEager(p) ==
    /\ pc = "plan"
    /\ p \in todo
    /\ LET planned == PlanPackage(stub, dest, p)
       IN  IF planned.err # "none"
           THEN /\ Return(planned.err)
                /\ UNCHANGED <<todo, actions, hist, fs>>
           ELSE /\ todo' = todo \ {p}
                /\ actions' = actions \o planned.actions
                /\ fs' = WriteCreates(fs, stub, planned.actions)
                /\ hist' = IF is_dest_package(dest, p)
                           THEN [hist EXCEPT !.skipped = @ \cup {p}]
                           ELSE hist
                /\ UNCHANGED <<pc, result>>
    /\ UNCHANGED <<static, temp_root, manifest, overwrite, update_cargo_toml, next,
                   forbidden_overwrites, targets, calls>>

\* lines 85-167: one iteration of the planning loop, for package p
PlanStep(p) ==
    /\ pc = "plan"
    /\ p \in todo
    /\ LET planned == PlanPackage(stub, dest, p)
       IN  IF planned.err # "none"
           THEN /\ Return(planned.err)
                /\ UNCHANGED <<todo, actions, hist>>
           ELSE /\ todo' = todo \ {p}
                /\ actions' = actions \o planned.actions
                /\ hist' = IF is_dest_package(dest, p)
                           THEN [hist EXCEPT !.skipped = @ \cup {p}]
                           ELSE hist
                /\ UNCHANGED <<pc, result>>
    /\ UNCHANGED <<static, temp_root, fs, manifest, overwrite, update_cargo_toml, next,
                   forbidden_overwrites, targets, calls>>

\* faulty variant: a manifest that is missing under Update ends the call
\* before the executor is started
CollectTargetsManifestFirst ==
    /\ pc = "plan"
    /\ todo = {}
    /\ IF /\ update_cargo_toml = "Update"
          /\ ~(HasParent(dest.root) /\ ManifestIsFile(manifest))
       THEN /\ Return("ManifestMissingError")
            /\ UNCHANGED <<targets, next>>
       ELSE /\ targets' = [i \in 1..Len(actions) |-> actions[i].target]
            /\ pc' = "run"
            /\ next' = 1
            /\ UNCHANGED result
    /\ UNCHANGED <<static, temp_root, fs, manifest, overwrite, update_cargo_toml, todo,
                   actions, forbidden_overwrites, calls, hist>>

\* lines 169-173: the loop is over; the targets are collected
CollectTargets ==
    /\ pc = "plan"
    /\ todo = {}
    /\ targets' = [i \in 1..Len(actions) |-> actions[i].target]
    /\ pc' = "run"
    /\ next' = 1
    /\ UNCHANGED <<static, temp_root, fs, manifest, overwrite, update_cargo_toml, todo,
                   actions, forbidden_overwrites, result, calls, hist>>

\* faulty variant: every disposition is reported as a plain copy
log_action_plan_as_copy(a, plan) ==
    [level |-> "info", verb |-> "Copying", target |-> a.target,
     source |-> IF a.kind = "WriteFile" THEN {} ELSE {a.source},
     transformed |-> a.kind = "CopyFileTransformed"]

\* log_action_plan: the message shown for one action and its disposition
log_action_plan(a, plan) ==
    [level |-> IF plan = "Create" THEN "info" ELSE "warn",
     verb |-> CASE plan = "Create" ->
                       IF a.kind = "WriteFile" THEN "Creating" ELSE "Copying"
                [] plan = "Overwrite" -> "Overwriting"
                [] OTHER -> "Skipping",
     target |-> a.target,
     source |-> IF a.kind = "WriteFile" THEN {} ELSE {a.source},
     transformed |-> a.kind = "CopyFileTransformed"]

\* OverwriteSafeActions::run(allow_overwrite, log_action_plan), one action:
\* its disposition is computed, notified, and performed if permitted
Run(allow_overwrite) ==
    /\ pc = "run"
    /\ next <= Len(actions)
    /\ LET a == actions[next]
           plan == ActionPlan(fs, stub, a)
           does == Performs(plan, allow_overwrite)
       IN  /\ fs' = IF does THEN WriteTo(fs, a.target, ActionContent(stub, a))
                     ELSE fs
           /\ forbidden_overwrites' =
                  IF plan = "Overwrite" /\ ~does
                  THEN Append(forbidden_overwrites, a)
                  ELSE forbidden_overwrites
           /\ hist' = [hist EXCEPT
                          !.log = Append(@, [action |-> a, plan |-> plan,
                                             message |-> log_action_plan(a, plan),
                                             performed |-> does,
                                             existed |-> a.target \in DOMAIN fs,
                                             before |-> IF a.target \in DOMAIN fs
                                                        THEN {fs[a.target]} ELSE {},
                                             after |-> IF a.target \in DOMAIN fs'
                                                       THEN {fs'[a.target]} ELSE {}]),
                          !.written = IF does THEN @ \cup {a.target} ELSE @]
    /\ next' = next + 1
    /\ UNCHANGED <<static, temp_root, manifest, pc, overwrite, update_cargo_toml, todo,
                   actions, targets, result, calls>>

\* faulty variant: the overwrite flag is not passed on
RunStepAlwaysOverwrite == Run(TRUE)

\* line 175: actions.run(overwrite, log_action_plan)
RunStep == Run(overwrite)

\* faulty variant: UpdateIfExists is treated like Update
ManifestMissingResultAnyUpdate(policy) ==
    IF policy # "NoUpdate" THEN "ManifestMissingError" ELSE "Ok"

\* lines 196-204: no manifest to update; an error only under Update
ManifestMissingResult(policy) ==
    IF policy = "Update" THEN "ManifestMissingError" ELSE "Ok"

\* faulty variant: only the targets written by this call are handed over
ManifestPathsWritten == SelectSeq(targets, LAMBDA path : path \in hist.written)

\* line 194: the paths handed to add_dependencies_to_cargo_toml
ManifestPaths == targets

\* faulty variant: a refused overwrite ends the call with an error
RefusalOutcomeFatal(refused) ==
    IF refused # <<>> THEN "RefusedOverwriteError" ELSE "proceed"

\* lines 175-183: the refused actions come back as a value; their targets
\* are printed and the call goes on
RefusalOutcome(refused) == "proceed"

\* lines 176-183: the targets printed as refused
RefusedTargets(refused) == [i \in 1..Len(refused) |-> refused[i].target]

\* faulty variant: the warning branch is never taken
WarnOnlyNever(policy) == FALSE

\* line 188: under NoUpdate an existing manifest only yields a warning
WarnOnly(policy) == policy = "NoUpdate"

\* faulty variant: the kind of the manifest is not looked at
ManifestKindUnchecked(m) == TRUE

\* lines 191-193: is_cargo_component_toml(..).context(..)? lets only a
\* component manifest through
ManifestKindOk(m) == is_cargo_component_toml(m)

\* lines 176-206: the refusals are printed, then the manifest step
UpdateManifest ==
    /\ pc = "run"
    /\ next > Len(actions)
    /\ IF RefusalOutcome(forbidden_overwrites) # "proceed"
       THEN /\ Return(RefusalOutcome(forbidden_overwrites))
            /\ UNCHANGED <<manifest, hist>>
       ELSE LET listed == RefusedTargets(forbidden_overwrites)
            IN
            IF HasParent(dest.root)
            THEN IF ManifestIsFile(manifest)
                 THEN IF WarnOnly(update_cargo_toml)
                      THEN /\ Return("Ok")
                           /\ hist' = [hist EXCEPT !.ran = TRUE,
                                                     !.listed = listed]
                           /\ UNCHANGED manifest
                      ELSE IF ~ManifestKindOk(manifest)
                      THEN /\ Return("ManifestKindError")
                           /\ hist' = [hist EXCEPT !.ran = TRUE,
                                                     !.listed = listed,
                                                     !.validated = TRUE]
                           /\ UNCHANGED manifest
                      ELSE /\ manifest' =
                                  add_dependencies_to_cargo_toml(manifest,
                                                                 ManifestPaths)
                           /\ hist' = [hist EXCEPT !.ran = TRUE,
                                                     !.listed = listed,
                                                     !.validated = TRUE,
                                                     !.updated = TRUE,
                                                     !.handed = ManifestPaths]
                           /\ Return("Ok")
                 ELSE /\ Return(ManifestMissingResult(update_cargo_toml))
                      /\ hist' = [hist EXCEPT !.ran = TRUE, !.listed = listed]
                      /\ UNCHANGED manifest
            ELSE /\ Return(ManifestMissingResult(update_cargo_toml))
                 /\ hist' = [hist EXCEPT !.ran = TRUE, !.listed = listed]
                 /\ UNCHANGED manifest
    /\ UNCHANGED <<static, temp_root, fs, overwrite, update_cargo_toml, todo, actions,
                   next, forbidden_overwrites, targets, calls>>

Next ==
    \/ \E ow \in BOOLEAN, policy \in UpdateCargoToml : Start(ow, policy)
    \/ SelfStubCheck
    \/ IsSelfStubReturn
    \/ \E p \in todo : PlanStep(p)
    \/ CollectTargets
    \/ RunStep
    \/ UpdateManifest

Spec == Init /\ [][Next]_vars

\* ------------------------------------------------------------ properties
Range(seq) == {seq[i] : i \in 1..Len(seq)}

\* the call has ended (not merely: no call was ever made)
Returned == pc = "idle" /\ calls > 0

\* the planned actions that belong to package p: copies of its source
\* files, or the file written into its deps/<namespace>_<name>/ directory
ActionsOfPackage(p) ==
    {a \in Range(actions) :
        IF a.kind = "WriteFile"
        THEN a.target = Join(DestDepsDir(dest),
                             <<DepDirName(p), Component(<<"_stub.wit">>)>>)
        ELSE a.source \in Range(stub.sources[p])}

\* C1: a package of the stub graph whose name equals the destination's
\* main package name never gets a planned action, also when it is the
\* stub's main package; once planning is over it is logged as skipped.
C1_DestPackageElided ==
    \A p \in stub.package_names :
        p = dest.main =>
            /\ ActionsOfPackage(p) = {}
            /\ (pc = "run" \/ hist.ran) => p \in hist.skipped

C1_Witness ==
    /\ pc = "run"
    /\ dest.main \in stub.package_names
    /\ dest.main = stub.package_id
    /\ Len(stub.sources[dest.main]) >= 1
    /\ Len(actions) >= 1
    /\ dest.main \in hist.skipped

\* C2: when the stub is a self-stub by name and its _stub.wit equals
\* neither regeneration, the call fails with the ambiguous-self-stub error
\* and neither a destination file nor the manifest has changed.
C2_AmbiguousSelfStubWritesNothing ==
    (hist.by_name = "true" /\ hist.by_content = "false") =>
        /\ pc = "idle"
        /\ result = "AmbiguousSelfStubError"
        /\ fs = hist.fs0
        /\ manifest = hist.manifest0

C2_Witness ==
    /\ Returned
    /\ hist.by_name = "true"
    /\ hist.by_content = "false"
    /\ result = "AmbiguousSelfStubError"
    /\ CandidateTargets(stub, dest) # {}
    /\ \E q \in CandidateTargets(stub, dest) : q \notin DOMAIN fs

\* deps/<namespace>_<name>-stub/_stub.wit under the destination root
SelfStubTarget ==
    Join(DestDepsDir(dest),
         <<DepDirName(DestStubPackageName(dest.main)), Component(<<"_stub.wit">>)>>)

InlineSelfStub == get_stub_wit(dest.main, "InlineRootTypes")

TargetIsUnique(target) ==
    Cardinality({i \in 1..Len(actions) : actions[i].target = target}) = 1

\* C3 as stated: when _stub.wit equals either regeneration, the call
\* succeeds and what it writes to the self-stub target is the inline
\* regeneration. (Stated here for stub trees every package of which can be
\* planned, so that what refutes it is not a planning failure.)
C3_SelfStubAlwaysSucceeds ==
    (Returned /\ hist.by_content = "true" /\ stub.variant \in {"import", "inline"}) =>
        /\ result = "Ok"
        /\ SelfStubTarget \in hist.written => fs[SelfStubTarget] = InlineSelfStub

FailuresAfterSelfStubCheck ==
    {"StubGenError", "MissingFileNameError", "PathStripError", "SourceReadError",
     "ManifestMissingError", "ManifestKindError"}

\* C3 (amended): when _stub.wit equals either regeneration, the self-stub
\* check passes, the call can only fail in a later step (inline
\* regeneration, planning of another package, manifest), the only
\* WriteFile planned is the inline regeneration aimed at the self-stub
\* target, performing it leaves the inline regeneration in the target, and
\* no action copies the stub's own _stub.wit.
C3_SelfStubWrittenInline ==
    hist.by_content = "true" =>
        /\ result \notin {"AmbiguousSelfStubError", "SelfStubCheckError"}
        /\ Returned => result \in {"Ok"} \cup FailuresAfterSelfStubCheck
        /\ \A a \in Range(actions) :
              a.kind = "WriteFile" =>
                  a.content = InlineSelfStub /\ a.target = SelfStubTarget
        /\ (pc = "run" \/ hist.ran) =>
              \E a \in Range(actions) :
                  a.kind = "WriteFile" /\ a.target = SelfStubTarget
        /\ \A e \in Range(hist.log) :
              (e.action.kind = "WriteFile" /\ e.performed) =>
                  e.after = {InlineSelfStub}
        /\ \A a \in Range(actions) :
              a.kind # "WriteFile" => a.source # StubWitPath
        /\ (SelfStubTarget \in hist.written /\ TargetIsUnique(SelfStubTarget)) =>
              fs[SelfStubTarget] = InlineSelfStub

C3_Witness ==
    /\ Returned
    /\ result = "Ok"
    /\ hist.by_content = "true"
    /\ stub.files[StubWitPath] = get_stub_wit(dest.main, "ImportRootTypes")
    /\ SelfStubTarget \in hist.written
    /\ fs[SelfStubTarget] = InlineSelfStub
    /\ fs[SelfStubTarget] # stub.files[StubWitPath]

\* C4: an action whose target exists with different content: with
\* overwrite=false the file keeps its bytes and the action is returned as
\* refused; with overwrite=true the file holds exactly the new content and
\* the action is not refused.
C4_OverwriteGating ==
    \A i \in 1..Len(hist.log) :
        LET e == hist.log[i]
            new == ActionContent(stub, e.action)
            target == e.action.target
        IN  /\ e.plan = "Overwrite" <=> (e.existed /\ e.before # {new})
            /\ e.plan = "Overwrite" =>
                  IF overwrite
                  THEN /\ e.performed
                       /\ e.after = {new}
                       /\ e.action \notin Range(forbidden_overwrites)
                       /\ TargetIsUnique(target) => fs[target] = new
                  ELSE /\ ~e.performed
                       /\ e.after = e.before
                       /\ e.action \in Range(forbidden_overwrites)
                       /\ TargetIsUnique(target) =>
                             /\ fs[target] = hist.fs0[target]
                             /\ {fs[target]} = e.before

\* a refused overwrite in one call, then the same target overwritten by
\* the next call, made with overwrite=true
C4_Witness ==
    /\ Returned
    /\ hist.prev.called
    /\ hist.prev.ran
    /\ ~hist.prev.overwrite
    /\ overwrite
    /\ \E e \in Range(hist.log) :
          /\ e.plan = "Overwrite"
          /\ e.performed
          /\ e.before = {EditedWit}
          /\ fs[e.action.target] = ActionContent(stub, e.action)

\* a call that follows a call with overwrite=false, itself with
\* overwrite=false
SecondRunWithoutOverwrite ==
    /\ hist.prev.called
    /\ ~hist.prev.overwrite
    /\ ~overwrite

\* C5 as stated: the second of two runs with overwrite=false writes
\* nothing and reports every target as SkipSameContent.
C5_SecondRunAllSkipped ==
    SecondRunWithoutOverwrite =>
        /\ hist.written = {}
        /\ \A e \in Range(hist.log) : e.plan = "SkipSameContent"

\* C5 (amended): the second of two runs with overwrite=false writes
\* nothing and reports no target as Create; a target is reported
\* SkipSameContent exactly when it holds the planned content, and every
\* other target (its content differs, as in the first run) is reported
\* Overwrite and refused again.
C5_SecondRunWritesNothing ==
    SecondRunWithoutOverwrite =>
        /\ hist.written = {}
        /\ fs = hist.fs0
        /\ \A e \in Range(hist.log) :
              /\ e.plan # "Create"
              /\ e.plan = "SkipSameContent" <=>
                    e.before = {ActionContent(stub, e.action)}
              /\ e.plan = "Overwrite" =>
                    ~e.performed /\ e.action \in Range(forbidden_overwrites)

C5_Witness ==
    /\ Returned
    /\ hist.ran
    /\ hist.prev.ran
    /\ SecondRunWithoutOverwrite
    /\ \E e1, e2 \in Range(hist.log) :
          e1.plan = "SkipSameContent" /\ e2.plan = "Overwrite"

\* C6: with no manifest when the call starts: under Update the call fails
\* with the manifest-missing error, under UpdateIfExists a call that gets
\* through the executor succeeds, and no manifest is created or modified.
C6_ManifestAbsentPolicy ==
    (calls > 0 /\ hist.manifest0.kind = "absent") =>
        /\ manifest = hist.manifest0
        /\ ~hist.updated
        /\ (Returned /\ update_cargo_toml = "Update") => result # "Ok"
        /\ (Returned /\ hist.ran) =>
              /\ update_cargo_toml = "Update" => result = "ManifestMissingError"
              /\ update_cargo_toml = "UpdateIfExists" => result = "Ok"

C6_Witness ==
    /\ Returned
    /\ hist.ran
    /\ HasParent(dest.root)
    /\ hist.manifest0.kind = "absent"
    /\ update_cargo_toml = "Update"
    /\ result = "ManifestMissingError"
    /\ hist.written # {}

C6_WitnessUpdateIfExists ==
    /\ Returned
    /\ hist.ran
    /\ hist.manifest0.kind = "absent"
    /\ update_cargo_toml = "UpdateIfExists"
    /\ result = "Ok"
    /\ manifest.kind = "absent"

PlanningFailures ==
    {"ResolutionError", "AmbiguousSelfStubError", "SelfStubCheckError",
     "StubGenError", "MissingFileNameError", "PathStripError", "SourceReadError"}

\* C7: nothing is written while the action list is being built, the
\* executor starts only when every package has been planned, and a call
\* that fails while planning, for whichever package, leaves every
\* destination file as it was before the call.
C7_PlanBeforeExecute ==
    /\ pc \in {"check", "is_self_stub", "plan"} =>
          fs = hist.fs0 /\ hist.written = {} /\ hist.log = <<>>
    /\ pc = "run" => todo = {}
    /\ (Returned /\ result \in PlanningFailures) =>
          fs = hist.fs0 /\ hist.written = {} /\ hist.log = <<>>

\* the last package iterated fails, after actions of other packages were
\* planned, one of which would have created its target
C7_Witness ==
    /\ Returned
    /\ result \in {"PathStripError", "SourceReadError"}
    /\ Cardinality(todo) = 1
    /\ Len(actions) >= 1
    /\ \E a \in Range(actions) : a.target \notin DOMAIN fs

\* "<namespace>:<simple name>-stub", the destination's stub package
DestStubPackagePrefix == <<dest.main.namespace, ":">> \o WithStub(dest.main.name)

\* C8: the prefix handed to the import remover is the destination's stub
\* package, "<namespace>:<simple name>-stub", so a transformed copy of a
\* transitive package holds no import of that package any more.
C8_DestStubImportsStripped ==
    /\ calls > 0 => hist.prefix = DestStubPackagePrefix
    /\ \A a \in Range(actions) :
          a.kind = "CopyFileTransformed" =>
              \A imp \in a.source_content_transformed.imports :
                  ~IsPrefixOf(DestStubPackagePrefix, imp)

\* C9 as stated: the paths handed to the manifest updater are the targets
\* this call wrote.
C9_HandedPathsAreWritten ==
    hist.updated => Range(hist.handed) = hist.written

\* C9 (amended): the paths handed to the manifest updater are the targets
\* of all planned actions, in plan order, whether the call wrote them,
\* skipped them as up to date or refused to overwrite them.
C9_HandedPathsArePlanned ==
    hist.updated =>
        /\ hist.handed = [i \in 1..Len(actions) |-> actions[i].target]
        /\ hist.written \subseteq Range(hist.handed)
        /\ \A e \in Range(hist.log) : e.action.target \in Range(hist.handed)

C9_Witness ==
    /\ Returned
    /\ hist.updated
    /\ hist.written # {}
    /\ \E e \in Range(hist.log) : e.plan = "Overwrite" /\ ~e.performed
    /\ hist.written # Range(hist.handed)

\* C10: no failure of the call is a panic.
C10_NeverPanics == result # "Panic"

\* how the manifest step alone ends, given the manifest the call found
ManifestStepResult ==
    IF HasParent(dest.root) /\ hist.manifest0.kind # "absent"
    THEN IF update_cargo_toml = "NoUpdate" THEN "Ok"
         ELSE IF hist.manifest0.kind = "component" THEN "Ok"
         ELSE "ManifestKindError"
    ELSE IF update_cargo_toml = "Update" THEN "ManifestMissingError" ELSE "Ok"

RefusedInThisCall ==
    /\ calls > 0
    /\ ~overwrite
    /\ \E e \in Range(hist.log) : e.plan = "Overwrite"

\* C11: with overwrite = false and a target whose content differs, every
\* Create write is still performed, no conflicting target is written, and
\* the call goes on to the manifest step, which alone decides its result
C11_RefusalsNotFatal ==
    RefusedInThisCall =>
        /\ \A e \in Range(hist.log) :
               /\ e.plan = "Create" =>
                      e.performed /\ e.after = {ActionContent(stub, e.action)}
               /\ e.plan = "Overwrite" => ~e.performed /\ e.after = e.before
        /\ Returned =>
               /\ Len(hist.log) = Len(actions)
               /\ hist.ran
               /\ result = ManifestStepResult
               /\ Len(forbidden_overwrites) =
                      Cardinality({i \in 1..Len(hist.log) :
                                       hist.log[i].plan = "Overwrite"})

C11_Witness ==
    /\ Returned
    /\ RefusedInThisCall
    /\ \E i, j \in 1..Len(hist.log) :
           /\ i < j
           /\ hist.log[i].plan = "Overwrite"
           /\ hist.log[j].plan = "Create"
    /\ hist.updated
    /\ result = "Ok"

Collision ==
    \E i, j \in 1..Len(actions) :
        i # j /\ actions[i].target = actions[j].target

\* C12: in every call at most one action is planned per target path; a
\* package graph that would map two sources to one target makes the call
\* fail before any write
C12_OneActionPerTarget ==
    /\ pc = "run" => ~Collision
    /\ Collision => hist.written = {} /\ (Returned => result # "Ok")

\* C13: a call that ends in an error leaves the manifest as it found it,
\* and a manifest of unrecognized kind is never modified; the manifest only
\* changes in a successful call that found a component manifest
C13_ManifestUntouchedOnError ==
    /\ (Returned /\ result # "Ok") => manifest = hist.manifest0 /\ ~hist.updated
    /\ manifest.kind = "other" => manifest.deps = {}
    /\ (calls > 0 /\ manifest # hist.manifest0) =>
           /\ Returned
           /\ result = "Ok"
           /\ update_cargo_toml # "NoUpdate"
           /\ hist.manifest0.kind = "component"

C13_Witness ==
    /\ Returned
    /\ result = "ManifestKindError"
    /\ update_cargo_toml = "UpdateIfExists"
    /\ hist.written # {}
    /\ targets # <<>>
    /\ manifest = [kind |-> "other", deps |-> {}]

\* C14: under NoUpdate the manifest is neither validated nor modified,
\* whether it is present, absent, or of unrecognized kind, and a call that
\* got through the executor succeeds whatever the manifest is
C14_NoUpdateIgnoresManifest ==
    (calls > 0 /\ update_cargo_toml = "NoUpdate") =>
        /\ manifest = hist.manifest0
        /\ ~hist.validated
        /\ ~hist.updated
        /\ hist.handed = <<>>
        /\ Returned => (result = "Ok" <=> hist.ran)

C14_Witness ==
    /\ Returned
    /\ update_cargo_toml = "NoUpdate"
    /\ hist.manifest0.kind = "other"
    /\ hist.written # {}
    /\ result = "Ok"

C14_WitnessAbsent ==
    /\ Returned
    /\ update_cargo_toml = "NoUpdate"
    /\ hist.manifest0.kind = "absent"
    /\ hist.written # {}
    /\ result = "Ok"

\* the class of a package of the stub tree, in the order the loop tests it
PackageClass(p) ==
    IF is_dest_package(dest, p) THEN "destination"
    ELSE IF is_dest_stub_package(dest, p) THEN "self-stub"
    ELSE IF is_stub_main_package(stub, p) THEN "stub-main"
    ELSE "other"

SourcesOf(p) == Range(stub.sources[p])

HasOutsideSource ==
    \E p \in stub.package_names :
        /\ PackageClass(p) = "other"
        /\ \E source \in SourcesOf(p) : ~StripPrefixOk(source, StubWitRoot)

InDepDir(target) ==
    \E p \in stub.package_names :
        /\ Len(target) = Len(dest.root) + 3
        /\ SubSeq(target, 1, Len(dest.root) + 2) =
               Join(DestDepsDir(dest), <<DepDirName(p)>>)

\* C15: every planned action targets a path inside the destination tree:
\* WriteFile and CopyFile go to <dest root>/deps/<ns>_<name>/<file>,
\* CopyFileTransformed to the source's path relative to the stub root,
\* re-rooted under the destination root; a source outside the stub root
\* ends the call with an error and nothing is executed
C15_TargetsInsideDest ==
    /\ \A a \in Range(actions) :
           /\ IsPrefixOf(dest.root, a.target)
           /\ \A i \in DOMAIN a.target : a.target[i] # Component(<<"..">>)
           /\ a.kind \in {"WriteFile", "CopyFile"} => InDepDir(a.target)
           /\ a.kind = "CopyFileTransformed" =>
                  /\ StripPrefixOk(a.source, StubWitRoot)
                  /\ a.target = Join(dest.root, StripPrefix(a.source, StubWitRoot))
    /\ calls > 0 =>
           \A q \in DOMAIN fs \ DOMAIN hist.fs0 : IsPrefixOf(dest.root, q)
    /\ (calls > 0 /\ HasOutsideSource) =>
           /\ pc # "run"
           /\ hist.written = {}
           /\ Returned => result \in PlanningFailures \cup {"Panic"}

C15_Witness ==
    /\ pc = "run"
    /\ dest.root # <<>>
    /\ \E a \in Range(actions) : a.kind = "CopyFileTransformed"
    /\ \E a \in Range(actions) : a.kind = "CopyFile"

C15_WitnessOutside ==
    /\ Returned
    /\ HasOutsideSource
    /\ result = "PathStripError"
    /\ actions # <<>>

\* the verb a disposition is reported with
ReportedAs(e) ==
    CASE e.plan = "Create" ->
             e.message.level = "info" /\
             e.message.verb = (IF e.action.kind = "WriteFile" THEN "Creating"
                                                              ELSE "Copying")
      [] e.plan = "Overwrite" ->
             e.message.level = "warn" /\ e.message.verb = "Overwriting"
      [] OTHER -> e.message.level = "warn" /\ e.message.verb = "Skipping"

NotifiedInOrder ==
    /\ Len(hist.log) <= Len(actions)
    /\ \A i \in 1..Len(hist.log) :
           /\ hist.log[i].action = actions[i]
           /\ hist.log[i].message.target = actions[i].target
           /\ ReportedAs(hist.log[i])

RefusedInLog ==
    SelectSeq([i \in 1..Len(hist.log) |->
                  IF hist.log[i].plan = "Overwrite" /\ ~hist.log[i].performed
                  THEN <<hist.log[i].action.target>> ELSE <<>>],
              LAMBDA x : x # <<>>)

DestPackagesSkipped ==
    \A p \in stub.package_names : is_dest_package(dest, p) => p \in hist.skipped

\* C16 as stated: whether a call succeeds or fails, when it has returned
\* each planned action has been notified exactly once with its
\* disposition, each elided destination package has been reported as
\* skipped, and each refused target has been listed
C16_EverythingReported ==
    (Returned /\ result # "Panic") =>
        /\ NotifiedInOrder
        /\ Len(hist.log) = Len(actions)
        /\ hist.ran => DestPackagesSkipped
        /\ hist.listed = RefusedTargets(forbidden_overwrites)

\* C16 (amended): the executor notifies the actions in list order, each
\* once, with the verb of its disposition; a call that got through the
\* executor has notified every planned action, listed exactly the refused
\* targets and reported the elided destination package, also when it then
\* fails at the manifest step; a call that fails while planning notifies
\* no action and lists no refusal
C16_ExecutedActionsReported ==
    /\ NotifiedInOrder
    /\ hist.skipped \subseteq {p \in stub.package_names : is_dest_package(dest, p)}
    /\ (Returned /\ hist.ran) =>
           /\ Len(hist.log) = Len(actions)
           /\ DestPackagesSkipped
           /\ hist.listed = RefusedTargets(forbidden_overwrites)
           /\ [i \in 1..Len(hist.listed) |-> <<hist.listed[i]>>] = RefusedInLog
    /\ (Returned /\ ~hist.ran) =>
           /\ hist.log = <<>>
           /\ hist.listed = <<>>
           /\ hist.written = {}

C16_Witness ==
    /\ Returned
    /\ hist.ran
    /\ result = "ManifestKindError"
    /\ dest.main \in hist.skipped
    /\ hist.listed # <<>>
    /\ \E e \in Range(hist.log) : e.plan = "Create" /\ e.message.verb = "Copying"
    /\ \E e \in Range(hist.log) : e.plan = "Overwrite" /\ ~e.performed

\* ------------------------------------------- InvokeResultView (golem-cli)
\* src/golem-cli/src/model/invoke_result_view.rs

\* the values a decoded result is made of, and the analysed types a
\* function can declare
Elements == {[typ |-> "bool", val |-> "true"], [typ |-> "bool", val |-> "false"],
             [typ |-> "u8", val |-> "7"], [typ |-> "handle", val |-> "1"]}
AnalysedTypes == {"bool", "u8", "handle"}

SeqsUpTo(S, n) == UNION {[1..k -> S] : k \in 0..n}

\* decoded TypeAnnotatedValue: a tuple of elements, or something else
DecodedValues ==
    {[decodes |-> TRUE, tag |-> "tuple", value |-> v] :
         v \in SeqsUpTo(Elements, MaxResults)}
    \cup {[decodes |-> TRUE, tag |-> "record", value |-> v] :
              v \in SeqsUpTo(Elements, 1)}
    \cup {[decodes |-> FALSE, tag |-> "none", value |-> <<>>]}

\* function_result_types(component, function): Err when the function is
\* not an export of the component
Functions ==
    {[found |-> TRUE, results |-> r] : r \in SeqsUpTo(AnalysedTypes, MaxResults)}
    \cup {[found |-> FALSE, results |-> <<>>]}

\* crate::model::wave::type_wave_compatible
type_wave_compatible(typ) == typ # "handle"

\* golem_wasm_rpc::type_annotated_value_to_string: the WAVE text, or an error
type_annotated_value_to_string(e) ==
    IF e.typ = "handle" THEN [ok |-> FALSE, text |-> <<>>]
    ELSE [ok |-> TRUE, text |-> <<e.val>>]

\* lines 82-95
try_wave_format(parsed) == type_annotated_value_to_string(parsed)

ViewFailed == [ok |-> FALSE, wave |-> <<>>]

\* faulty variant: the declared result types are not tested
try_parse_any_type(res, function) ==
    IF res.tag # "tuple" THEN ViewFailed
    ELSE IF ~function.found THEN ViewFailed
    ELSE IF Len(res.value) # Len(function.results) THEN ViewFailed
    ELSE IF \E i \in DOMAIN res.value : ~try_wave_format(res.value[i]).ok
         THEN ViewFailed
    ELSE [ok |-> TRUE,
          wave |-> [i \in DOMAIN res.value |-> try_wave_format(res.value[i]).text]]

\* lines 36-80
try_parse(res, function) ==
    IF res.tag # "tuple" THEN ViewFailed
    ELSE IF ~function.found THEN ViewFailed
    ELSE IF Len(res.value) # Len(function.results) THEN ViewFailed
    ELSE IF \E i \in DOMAIN function.results :
                ~type_wave_compatible(function.results[i])
         THEN ViewFailed
    ELSE IF \E i \in DOMAIN res.value : ~try_wave_format(res.value[i]).ok
         THEN ViewFailed
    ELSE [ok |-> TRUE,
          wave |-> [i \in DOMAIN res.value |-> try_wave_format(res.value[i]).text]]

\* serde_json::to_value(&result)
ToJson(res) ==
    [type |-> res.tag,
     items |-> [i \in DOMAIN res.value |->
                   <<res.value[i].typ, res.value[i].val>>]]

\* lines 22-34
try_parse_or_json(res, function) ==
    IF ~res.decodes THEN [kind |-> "Err", wave |-> <<>>, json |-> {}]
    ELSE IF try_parse(res, function).ok
         THEN [kind |-> "Wave", wave |-> try_parse(res, function).wave,
               json |-> {}]
    ELSE [kind |-> "Json", wave |-> <<>>, json |-> {ToJson(res)}]

\* the add_stub_dependency side is at rest while a result is rendered
ViewRest ==
    /\ dest = [root |-> <<>>, main |-> APP]
    /\ stub = [package_id |-> APP_STUB,
               package_names |-> {APP_STUB},
               sources |-> StubSources(APP_STUB, {}, "import"),
               files |-> StubFiles(APP_STUB, {}, "import", APP),
               variant |-> "import"]
    /\ fs = <<>>
    /\ manifest = [kind |-> "absent", deps |-> {}]
    /\ pc = "idle"
    /\ overwrite = FALSE
    /\ update_cargo_toml = "NoUpdate"
    /\ todo = {}
    /\ actions = <<>>
    /\ next = 1
    /\ forbidden_overwrites = <<>>
    /\ targets = <<>>
    /\ result = "none"
    /\ calls = 0
    /\ hist = NoHist
    /\ temp_root = FALSE

InitView ==
    /\ ViewRest
    /\ \E res \in DecodedValues, function \in Functions :
           view = [res |-> res, function |-> function, out |-> NoView.out]

\* InvokeResultView::try_parse_or_json(res, component, function)
TryParseOrJson ==
    /\ view.out.kind = "none"
    /\ view' = [view EXCEPT !.out = try_parse_or_json(view.res, view.function)]
    /\ UNCHANGED <<stub, dest, temp_root, fs, manifest, pc, overwrite, update_cargo_toml,
                   todo, actions, next, forbidden_overwrites, targets, result,
                   calls, hist>>

NextView == TryParseOrJson

SpecView == InitView /\ [][NextView]_vars

\* when the claim expects the WAVE rendering
WaveExpected ==
    /\ view.res.tag = "tuple"
    /\ view.function.found
    /\ Len(view.res.value) = Len(view.function.results)
    /\ \A i \in DOMAIN view.function.results :
           view.function.results[i] # "handle"
    /\ \A i \in DOMAIN view.res.value : view.res.value[i].typ # "handle"

\* C17: try_parse_or_json returns the Wave view exactly when the decoded
\* result is a tuple, its element count equals the function's declared
\* result count, every declared type is wave-compatible and every element
\* formats as WAVE; in every other case where decoding succeeded it returns
\* the Json view of the decoded value, never an error
C17_WaveOrJson ==
    (view.out.kind # "none" /\ view.res.decodes) =>
        /\ view.out.kind \in {"Wave", "Json"}
        /\ view.out.kind = "Wave" <=> WaveExpected
        /\ view.out.kind = "Wave" =>
               /\ Len(view.out.wave) = Len(view.res.value)
               /\ \A i \in DOMAIN view.out.wave :
                      view.out.wave[i] = <<view.res.value[i].val>>
        /\ view.out.kind = "Json" => view.out.json = {ToJson(view.res)}

C17_Witness ==
    /\ view.out.kind = "Wave"
    /\ Len(view.out.wave) = 2
    /\ view.function.results = <<"bool", "u8">>

C17_WitnessJson ==
    /\ view.out.kind = "Json"
    /\ view.res.tag = "tuple"
    /\ Len(view.res.value) = 1
    /\ view.function.results = <<"handle">>
    /\ view.res.value[1].typ = "bool"

\* positions in the action list of the actions that belong to package p
BelongsTo(a, p) ==
    IF a.kind = "WriteFile"
    THEN a.target = Join(DestDepsDir(dest),
                         <<DepDirName(p), Component(<<"_stub.wit">>)>>)
    ELSE \E k \in DOMAIN stub.sources[p] : a.source = stub.sources[p][k]

IndicesOf(p) == {i \in 1..Len(actions) : BelongsTo(actions[i], p)}

\* the actions at positions `mine` are one action of that kind per source
\* file of package p, and no other
OnePerSource(p, mine, kind) ==
    /\ Cardinality(mine) = Len(stub.sources[p])
    /\ \A i \in mine : actions[i].kind = kind
    /\ \A k \in DOMAIN stub.sources[p] :
           \E i \in mine : actions[i].source = stub.sources[p][k]

\* C18: once planning is over, each package has the actions of its class
\* and no others: none for the destination package; one WriteFile for the
\* self-stub package, however many source files it has, also when it is
\* the stub's main package; one CopyFile per source file for the stub main
\* package; one CopyFileTransformed per source file for any other package
C18_ClassDeterminesActions ==
    pc = "run" =>
        /\ \A p \in stub.package_names :
              LET mine == IndicesOf(p)
                  class == PackageClass(p)
              IN  CASE class = "destination" -> mine = {}
                    [] class = "self-stub" ->
                           /\ Cardinality(mine) = 1
                           /\ \A i \in mine : actions[i].kind = "WriteFile"
                    [] class = "stub-main" -> OnePerSource(p, mine, "CopyFile")
                    [] OTHER -> OnePerSource(p, mine, "CopyFileTransformed")
        /\ \A i \in 1..Len(actions) :
              \E p \in stub.package_names : BelongsTo(actions[i], p)

C18_Witness ==
    /\ pc = "run"
    /\ PackageClass(stub.package_id) = "self-stub"
    /\ Len(stub.sources[stub.package_id]) = 2
    /\ \E p \in stub.package_names :
           PackageClass(p) = "other" /\ Len(stub.sources[p]) = 2
    /\ Len(actions) = 3

C18_WitnessStubMain ==
    /\ pc = "run"
    /\ PackageClass(stub.package_id) = "stub-main"
    /\ Len(stub.sources[stub.package_id]) = 2
    /\ \E p \in stub.package_names : PackageClass(p) = "destination"
    /\ Len(actions) = 2

\* C19: once planning is over, every source file of every other package
\* has exactly one CopyFileTransformed, whose target is the source's path
\* relative to the stub root under the destination root (same file name,
\* same relative directory) and whose content is the source with the
\* imports of the destination's stub package removed
C19_OtherPackagesCopiedTransformed ==
    (pc = "run" \/ hist.ran) =>
        \A p \in stub.package_names :
            PackageClass(p) = "other" =>
                \A k \in DOMAIN stub.sources[p] :
                    LET source == stub.sources[p][k]
                        mine == {i \in 1..Len(actions) :
                                    /\ actions[i].kind = "CopyFileTransformed"
                                    /\ actions[i].source = source}
                    IN  /\ Cardinality(mine) = 1
                        /\ \A i \in mine :
                              /\ actions[i].target =
                                     Join(dest.root, StripPrefix(source, StubWitRoot))
                              /\ FileName(actions[i].target) = FileName(source)
                              /\ actions[i].source_content_transformed =
                                     import_remover(DestStubPackagePrefix,
                                                    stub.files[source])

\* C20: the temporary directory of the self-stub content check exists only
\* while is_self_stub runs; it is gone on every way out of it (the check
\* succeeds with either answer, stub generation fails, _stub.wit cannot
\* be read), hence whenever add_stub_dependency has returned
C20_TempRootRemoved ==
    /\ temp_root => pc = "is_self_stub"
    /\ Returned => ~temp_root
    /\ (calls > 0 /\ hist.by_content # "none") => hist.temp_created /\ ~temp_root

C20_Witness ==
    /\ Returned
    /\ hist.temp_created
    /\ hist.by_content = "err"
    /\ result = "SelfStubCheckError"
    /\ ~temp_root

C20_WitnessSuccess ==
    /\ Returned
    /\ hist.temp_created
    /\ hist.by_content = "true"
    /\ result = "Ok"
    /\ ~temp_root

C20_WitnessErrorIgnored ==
    /\ Returned
    /\ hist.by_content = "err"
    /\ hist.by_name = "false"
    /\ result = "Ok"
    /\ ~temp_root

ManifestFailures == {"ManifestMissingError", "ManifestKindError"}

\* positions in the log of the writes performed on path q
WritesTo(q) ==
    {i \in 1..Len(hist.log) :
        hist.log[i].performed /\ hist.log[i].action.target = q}

Latest(S) == CHOOSE i \in S : \A j \in S : j <= i

\* the destination tree is what the call found, with every performed
\* write still in place
WritesKept ==
    /\ DOMAIN fs = DOMAIN hist.fs0 \cup hist.written
    /\ \A q \in DOMAIN fs :
           IF WritesTo(q) = {}
           THEN q \in DOMAIN hist.fs0 /\ fs[q] = hist.fs0[q]
           ELSE {fs[q]} = hist.log[Latest(WritesTo(q))].after

\* C21: the manifest is looked at only once the executor is done: while a
\* call is planning or executing nothing of the manifest step has
\* happened, and a call that ends with the manifest-missing or the
\* manifest-kind error has handled every planned action, performed every
\* write it was permitted to, and left those writes in place
C21_ManifestAfterExecutor ==
    /\ (calls > 0 /\ pc # "idle") =>
           result = "none" /\ ~hist.ran /\ ~hist.validated /\ ~hist.updated
    /\ (Returned /\ result \in ManifestFailures) =>
           /\ hist.ran
           /\ Len(hist.log) = Len(actions)
           /\ \A e \in Range(hist.log) :
                  /\ e.performed <=>
                         (e.plan = "Create" \/ (e.plan = "Overwrite" /\ overwrite))
                  /\ e.performed => e.after = {ActionContent(stub, e.action)}
           /\ hist.written = {e.action.target : e \in {x \in Range(hist.log) : x.performed}}
           /\ WritesKept
           /\ manifest = hist.manifest0

C21_Witness ==
    /\ Returned
    /\ result = "ManifestMissingError"
    /\ hist.written # {}
    /\ \E e \in Range(hist.log) : e.plan = "Overwrite" /\ ~e.performed
    /\ \E q \in hist.written : q \notin DOMAIN hist.fs0 /\ q \in DOMAIN fs

C21_WitnessKind ==
    /\ Returned
    /\ result = "ManifestKindError"
    /\ overwrite
    /\ \E e \in Range(hist.log) : e.plan = "Overwrite" /\ e.performed
    /\ \E q \in hist.written \cap DOMAIN hist.fs0 : fs[q] # hist.fs0[q]

SelfStubFailures == {"AmbiguousSelfStubError", "SelfStubCheckError"}

\* C22: the content check decides something only when the name check
\* matches: a call ends with one of the two self-stub errors only for a
\* stub that is a self-stub by name, and for a stub that is not, the call
\* goes on to planning whatever the content check returned, an error of
\* the check included, so it can only end as planning, the executor and
\* the manifest step make it end
C22_ContentCheckOnlyWithName ==
    /\ result \in SelfStubFailures =>
           hist.by_name = "true" /\ hist.by_content \in {"false", "err"}
    /\ (calls > 0 /\ hist.by_name = "false" /\ hist.by_content # "none") =>
           /\ pc \in {"plan", "run", "idle"}
           /\ pc = "idle" => result \in {"Ok"} \cup FailuresAfterSelfStubCheck
           /\ pc # "idle" => result = "none"
    /\ (hist.by_name = "true" /\ hist.by_content = "err") =>
           Returned /\ result = "SelfStubCheckError"

C22_Witness ==
    /\ Returned
    /\ hist.by_name = "false"
    /\ hist.by_content = "err"
    /\ result = "Ok"
    /\ hist.written # {}
    /\ Len(hist.log) = Len(actions)

C22_WitnessFalse ==
    /\ pc = "plan"
    /\ hist.by_name = "false"
    /\ hist.by_content = "false"
    /\ todo = stub.package_names

C22_WitnessGenFails ==
    /\ pc = "plan"
    /\ hist.by_name = "false"
    /\ hist.by_content = "err"
    /\ stub.variant = "check_gen_fails"
====
